---- MODULE Spec2Model ----
(***************************************************************************)
(* Page and attachment upsert against the Confluence REST API              *)
(* (confluence_automation.py), the directory upload that drives it         *)
(* (upload_ils_folder.py) and the code block bodies built from a source    *)
(* file's text (upload_ils_folder.py, upload_ils.py).                      *)
(*                                                                         *)
(* The program keeps no state of its own between calls: the state is the   *)
(* remote platform's pages and attachments, the locals of the call in      *)
(* progress and its position.  One action is one HTTP round trip together  *)
(* with the code that handles its response.  The platform's answers are    *)
(* the inputs: a truthful answer computed from the platform's state, or a  *)
(* failed one (a non-success status, a body that is not JSON).             *)
(***************************************************************************)
EXTENDS Integers, Sequences, FiniteSets, TLC

VARIABLES
    pages,    \* platform: sequence of pages, a page's id is its index
    atts,     \* platform: sequence of attachments, an attachment's id is its index
    order,    \* platform: the order title queries list their results in
    pc,       \* position of the program
    caller,   \* who called the operation in progress: "top" or "dir"
    np,       \* locals of new_page
    ua,       \* locals of upload_attachment_to_page
    ret,      \* how the last finished call ended
    log,      \* trace of the calls made and requests answered (history variable)
    hist,     \* the finished top-level calls (history variable)
    ops,      \* number of top-level calls started
    faults,   \* number of failed platform answers so far
    dir,      \* locals of upload_ils_directory
    cdata,    \* a source file, the page body built from its text, locals of upload_skill_file
    auto      \* locals of create_confluence_automation_page

vars == <<pages, atts, order, pc, caller, np, ua, ret, log, hist, ops, faults, dir, cdata, auto>>

\* ------------------------------------------------------------------ bounds

\* Top-level calls in one run.
MaxOps == 2
\* Failed platform answers in one run.
MaxFaults == 2

\* ----------------------------------------------------------- configuration

PARENT_PAGE_TITLE == "Home"

\* ---------------------------------------------------------------- platform

NoPage == 0

PageIds == 1..Len(pages)

RECURSIVE Ancestors(_)
\* A page's ancestors, root first; the last one is its direct parent.
Ancestors(id) ==
    IF pages[id].parent = NoPage THEN <<>>
    ELSE Append(Ancestors(pages[id].parent), pages[id].parent)

RECURSIVE Ascending(_)
Ascending(S) ==
    IF S = {} THEN <<>>
    ELSE LET m == CHOOSE x \in S : \A y \in S : x <= y
         IN <<m>> \o Ascending(S \ {m})

Reverse(s) == [i \in 1..Len(s) |-> s[Len(s) + 1 - i]]

InOrder(S) == IF order = "asc" THEN Ascending(S) ELSE Reverse(Ascending(S))

\* The result list of GET /rest/api/content?title=t&spaceKey=..&expand=ancestors,version:
\* every page of the space with that title, whatever its parent.
QueryResults(t) ==
    LET ids == InOrder({i \in PageIds : pages[i].title = t})
    IN [k \in 1..Len(ids) |->
           [id |-> ids[k], ancestors |-> Ancestors(ids[k]),
            version |-> pages[ids[k]].version]]

\* The page titled t whose direct parent is p (the platform keeps titles unique
\* among siblings), or NoPage.
PageUnder(t, p) ==
    IF \E i \in PageIds : pages[i].title = t /\ pages[i].parent = p
    THEN CHOOSE i \in PageIds : pages[i].title = t /\ pages[i].parent = p
    ELSE NoPage

FaultsLeft == faults < MaxFaults

\* The answers a title query can get: the truthful one, a non-200 status, or a
\* 200 whose body is not JSON (a login page).
GetResponses(t) ==
    {[status |-> 200, json |-> TRUE, results |-> QueryResults(t)]}
    \cup (IF FaultsLeft
          THEN {[status |-> 500, json |-> FALSE, results |-> <<>>],
                [status |-> 200, json |-> FALSE, results |-> <<>>]}
          ELSE {})

GetFailed(resp) == resp.status # 200 \/ ~resp.json

\* The status a PUT of payload p gets when the platform processes it: the platform
\* accepts only the version that follows the page's current one.
PutStatus(p) ==
    IF p.id \in PageIds /\ p.version = pages[p.id].version + 1 THEN 200 ELSE 409

PutStatuses(p) == {PutStatus(p)} \cup (IF FaultsLeft THEN {500} ELSE {})

\* The pages after an accepted PUT: a full replace of the page.
PagesAfterPut(p) ==
    [pages EXCEPT ![p.id] = [title |-> p.title, parent |-> p.ancestors[1],
                             version |-> p.version, body |-> p.body]]

\* The status a create gets when the platform processes it: a title is unique
\* among the pages of one parent.
PostStatus(p) ==
    IF p.ancestors[1] \in PageIds /\ PageUnder(p.title, p.ancestors[1]) = NoPage
    THEN 200 ELSE 400

PostStatuses(p) == {PostStatus(p)} \cup (IF FaultsLeft THEN {500} ELSE {})

\* The pages after an accepted create: a new page, version 1.
PagesAfterPost(p) ==
    Append(pages, [title |-> p.title, parent |-> p.ancestors[1],
                   version |-> 1, body |-> p.body])

\* The attachments of a page with a file name (the platform keeps at most one).
AttsNamed(page, fn) ==
    Ascending({a \in 1..Len(atts) : atts[a].page = page /\ atts[a].filename = fn})

\* The answer a new attachment gets when the platform processes it: 404 for a
\* page that does not exist, 400 "same file name" when the page has an
\* attachment of that name, 200 otherwise.
AttPostResponse(page, fn) ==
    IF page \notin PageIds THEN [status |-> 404, same_name |-> FALSE]
    ELSE IF Len(AttsNamed(page, fn)) > 0 THEN [status |-> 400, same_name |-> TRUE]
    ELSE [status |-> 200, same_name |-> FALSE]

AttPostResponses(page, fn) ==
    {AttPostResponse(page, fn)}
    \cup (IF FaultsLeft THEN {[status |-> 500, same_name |-> FALSE]} ELSE {})

AttsAfterPost(page, fn, bytes) ==
    Append(atts, [page |-> page, filename |-> fn, bytes |-> bytes, version |-> 1])

\* The answers the lookup of a page's attachments by file name can get: the
\* truthful list, a non-200 status, or a list that misses the attachment (it was
\* removed meanwhile, or the unescaped file name in the query string did not
\* match).
AttGetResponses(page, fn) ==
    {[status |-> 200, results |-> AttsNamed(page, fn)]}
    \cup (IF FaultsLeft
          THEN {[status |-> 500, results |-> <<>>], [status |-> 200, results |-> <<>>]}
          ELSE {})

AttGetFailed(resp, page, fn) == resp # [status |-> 200, results |-> AttsNamed(page, fn)]

\* The status new data for attachment a of a page gets when the platform
\* processes it.
AttDataStatus(page, a) ==
    IF a \in 1..Len(atts) /\ atts[a].page = page THEN 200 ELSE 404

AttDataStatuses(page, a) == {AttDataStatus(page, a)} \cup (IF FaultsLeft THEN {500} ELSE {})

\* The attachments after accepted new data: same id and name, a new version.
AttsAfterData(a, bytes) ==
    [atts EXCEPT ![a] = [@ EXCEPT !.bytes = bytes, !.version = @ + 1]]

\* ---------------------------------------------------- get_page_id_by_title

GetPageIdByTitle_Last(resp) ==
    IF resp.status # 200 THEN [kind |-> "raise", err |-> "status", id |-> NoPage]
    ELSE IF ~resp.json THEN [kind |-> "raise", err |-> "decode", id |-> NoPage]
    ELSE IF Len(resp.results) = 0 THEN [kind |-> "raise", err |-> "notfound", id |-> NoPage]
    ELSE [kind |-> "ok", err |-> "", id |-> resp.results[Len(resp.results)].id]

GetPageIdByTitle_Null(resp) ==
    IF resp.status # 200 THEN [kind |-> "raise", err |-> "status", id |-> NoPage]
    ELSE IF ~resp.json THEN [kind |-> "raise", err |-> "decode", id |-> NoPage]
    ELSE IF Len(resp.results) = 0 THEN [kind |-> "ok", err |-> "", id |-> NoPage]
    ELSE [kind |-> "ok", err |-> "", id |-> resp.results[1].id]

\* What get_page_id_by_title does with the answer to its query: it raises on a
\* non-200 status, on a body that is not JSON and on an empty result, and
\* returns the first result's id otherwise.
GetPageIdByTitle(resp) ==
    IF resp.status # 200 THEN [kind |-> "raise", err |-> "status", id |-> NoPage]
    ELSE IF ~resp.json THEN [kind |-> "raise", err |-> "decode", id |-> NoPage]
    ELSE IF Len(resp.results) = 0 THEN [kind |-> "raise", err |-> "notfound", id |-> NoPage]
    ELSE [kind |-> "ok", err |-> "", id |-> resp.results[1].id]

\* ---------------------------------------------------------------- new_page

NpLocals(t, c, p) ==
    [title |-> t, content |-> c, parent |-> p, parent_id |-> NoPage,
     page_exists |-> FALSE, page_id |-> NoPage, version |-> 1]

RECURSIVE FirstUnder(_, _, _)
\* The index of the first result from k on whose ancestors are not empty and
\* end in parent_id; 0 when there is none.
FirstUnder(results, parent_id, k) ==
    IF k > Len(results) THEN 0
    ELSE IF Len(results[k].ancestors) > 0
            /\ results[k].ancestors[Len(results[k].ancestors)] = parent_id
         THEN k
         ELSE FirstUnder(results, parent_id, k + 1)

FindExisting_AnyParent(resp, parent_id) ==
    IF resp.status = 200 /\ Len(resp.results) > 0
    THEN [page_exists |-> TRUE, page_id |-> resp.results[1].id,
          version |-> resp.results[1].version + 1]
    ELSE [page_exists |-> FALSE, page_id |-> NoPage, version |-> 1]

\* The loop of new_page over the title query's results: the page to update, if any.
FindExisting(resp, parent_id) ==
    LET k == IF resp.status = 200 THEN FirstUnder(resp.results, parent_id, 1) ELSE 0
    IN IF k > 0
       THEN [page_exists |-> TRUE, page_id |-> resp.results[k].id,
             version |-> resp.results[k].version + 1]
       ELSE [page_exists |-> FALSE, page_id |-> NoPage, version |-> 1]

UpdatePayload_Current(l) ==
    [id |-> l.page_id, title |-> l.title, ancestors |-> <<l.parent_id>>,
     body |-> l.content, version |-> pages[l.page_id].version + 1]

UpdatePayload_StaleBody(l) ==
    [id |-> l.page_id, title |-> l.title, ancestors |-> <<l.parent_id>>,
     body |-> pages[l.page_id].body, version |-> l.version]

\* The JSON body of the PUT.
UpdatePayload(l) ==
    [id |-> l.page_id, title |-> l.title, ancestors |-> <<l.parent_id>>,
     body |-> l.content, version |-> l.version]

CreatePayload_UnderHome(l) ==
    [title |-> l.title, ancestors |-> <<1>>, body |-> l.content]

\* The JSON body of the POST.
CreatePayload(l) ==
    [title |-> l.title, ancestors |-> <<l.parent_id>>, body |-> l.content]

\* ------------------------------------------------------------ bookkeeping

\* The trace since the last call of an operation began (that call's requests).
RECURSIVE LastCall(_, _)
LastCall(s, k) ==
    IF k = 0 THEN 0 ELSE IF s[k].ev = "call" THEN k ELSE LastCall(s, k - 1)

CurLog(s) == SubSeq(s, LastCall(s, Len(s)) + 1, Len(s))

\* Every request of the call was answered with success.
Clean(s) == \A k \in 1..Len(s) : s[k].ok

\* The page the call's title query could have matched (what the platform held
\* under the resolved parent when the query was answered); -1 without a query.
HadAtQuery(s) ==
    IF \E k \in 1..Len(s) : s[k].ev = "query"
    THEN s[CHOOSE k \in 1..Len(s) : s[k].ev = "query"].had
    ELSE -1

HistEntry(op, kind, l, u, s) ==
    [op |-> op, kind |-> kind, clean |-> Clean(CurLog(s)), had |-> HadAtQuery(CurLog(s)),
     title |-> l.title, parent |-> l.parent, content |-> l.content,
     pid |-> l.parent_id,
     page |-> u.page_id, filename |-> u.filename, bytes |-> u.bytes]

NoUa == [page_id |-> NoPage, filename |-> "", bytes |-> 0, att_id |-> 0]
NoNp == NpLocals("", <<>>, "")
NoAuto == [phase |-> "none"]
NoDir == [exists |-> FALSE, listing |-> <<>>, section |-> "", title |-> "",
          files |-> <<>>, i |-> 0, phase |-> "none"]

\* Where a call of new_page or upload_attachment_to_page returns to: the top
\* level, or the function that made the call.
ReturnPc(c) ==
    CASE c = "top" -> "idle"
      [] c = "dir" -> "dir_ret"
      [] c = "auto" -> "auto_ret"
      [] c = "skill" -> "skill_ret"

ReturnPcs == {"idle", "dir_ret", "auto_ret", "skill_ret"}

\* The call in progress ends: with a return (kind "return") or an exception
\* (kind "raise") that reaches its caller.
Finish(op, kind, l, u, s) ==
    /\ pc' = ReturnPc(caller)
    /\ ret' = [op |-> op, kind |-> kind]
    /\ hist' = IF caller = "top" THEN Append(hist, HistEntry(op, kind, l, u, s)) ELSE hist
    /\ log' = s

\* ------------------------------------------------------- new_page, by step

NewPageTitles == {"X"}
NewPageParents == {"Home", "Other", "Nope"}
Contents == {<<"text", "b1">>, <<"text", "b2">>}

\* A top-level call new_page(t, c, parent=p).
CallNewPage ==
    /\ pc = "idle"
    /\ ops < MaxOps
    /\ \E t \in NewPageTitles, c \in Contents, p \in NewPageParents :
          /\ np' = NpLocals(t, c, p)
          /\ log' = <<[ev |-> "call", op |-> "new_page", title |-> t, ok |-> TRUE]>>
    /\ pc' = "np_resolve"
    /\ caller' = "top"
    /\ ops' = ops + 1
    /\ UNCHANGED <<pages, atts, order, ua, ret, hist, faults, dir, cdata, auto>>

\* parent_id = get_page_id_by_title(parent); on an exception print and return.
NpResolveParent ==
    /\ pc = "np_resolve"
    /\ \E resp \in GetResponses(np.parent) :
          LET r == GetPageIdByTitle(resp)
              l == [np EXCEPT !.parent_id = r.id]
              s == Append(log, [ev |-> "get_by_title", by |-> "new_page",
                                title |-> np.parent, resp |-> resp, out |-> r,
                                ok |-> ~GetFailed(resp)])
          IN /\ faults' = IF GetFailed(resp) THEN faults + 1 ELSE faults
             /\ np' = l
             /\ IF r.kind = "raise"
                THEN Finish("new_page", "return", l, ua, s)
                ELSE /\ pc' = "np_query"
                     /\ log' = s
                     /\ UNCHANGED <<ret, hist>>
    /\ UNCHANGED <<pages, atts, order, caller, ua, ops, dir, cdata, auto>>

\* The title query and the loop over its results.
NpQuery ==
    /\ pc = "np_query"
    /\ \E resp \in GetResponses(np.title) :
          LET f == FindExisting(resp, np.parent_id)
              l == [np EXCEPT !.page_exists = f.page_exists,
                              !.page_id = f.page_id, !.version = f.version]
              s == Append(log, [ev |-> "query", title |-> np.title, resp |-> resp,
                                par |-> np.parent_id,
                                had |-> PageUnder(np.title, np.parent_id),
                                ok |-> ~GetFailed(resp)])
          IN /\ faults' = IF GetFailed(resp) THEN faults + 1 ELSE faults
             /\ IF resp.status = 200 /\ ~resp.json
                THEN \* resp.json() raises, nothing in new_page catches it
                     /\ np' = np
                     /\ Finish("new_page", "raise", np, ua, s)
                ELSE /\ np' = l
                     /\ pc' = "np_write"
                     /\ log' = s
                     /\ UNCHANGED <<ret, hist>>
    /\ UNCHANGED <<pages, atts, order, caller, ua, ops, dir, cdata, auto>>

\* page_exists: PUT the page with the next version; print the outcome.
NpUpdate ==
    /\ pc = "np_write"
    /\ np.page_exists
    /\ LET p == UpdatePayload(np)
       IN \E st \in PutStatuses(p) :
             LET s == Append(log, [ev |-> "put", page |-> p.id, payload |-> p,
                                   status |-> st, par |-> np.parent_id,
                                   had |-> PageUnder(np.title, np.parent_id),
                                   cur |-> pages[p.id].version,
                                   tpar |-> pages[p.id].parent,
                                   ok |-> st = 200])
             IN /\ faults' = IF st = 500 THEN faults + 1 ELSE faults
                /\ pages' = IF st = 200 THEN PagesAfterPut(p) ELSE pages
                /\ Finish("new_page", "return", np, ua, s)
    /\ UNCHANGED <<atts, order, caller, np, ua, ops, dir, cdata, auto>>

\* not page_exists: POST a new page under the parent; print the outcome.
NpCreate ==
    /\ pc = "np_write"
    /\ ~np.page_exists
    /\ LET p == CreatePayload(np)
       IN \E st \in PostStatuses(p) :
             LET had == PageUnder(np.title, np.parent_id)
                 s == Append(log, [ev |-> "post", page |-> NoPage, payload |-> p,
                                   status |-> st, par |-> np.parent_id,
                                   had |-> had,
                                   cur |-> IF had = NoPage THEN 0 ELSE pages[had].version,
                                   tpar |-> NoPage,
                                   ok |-> st \in {200, 201}])
             IN /\ faults' = IF st = 500 THEN faults + 1 ELSE faults
                /\ pages' = IF st = 200 THEN PagesAfterPost(p) ELSE pages
                /\ Finish("new_page", "return", np, ua, s)
    /\ UNCHANGED <<atts, order, caller, np, ua, ops, dir, cdata, auto>>

\* ----------------------------------------- upload_attachment_to_page, by step

UploadPages == {1, 3}
UploadNames == {"plot.png"}
UploadBytes == {1, 2}

CreateBranch_Retry(resp) ==
    IF resp.status \notin {200, 201} THEN "update" ELSE "return"

CreateBranch_Ignore(resp) ==
    IF resp.status \notin {200, 201, 400} THEN "raise" ELSE "return"

\* What upload_attachment_to_page does with the answer to its create POST: on a
\* 400 that says "same file name" it goes on to update the attachment, on
\* another status that is not 200 or 201 it raises, otherwise it returns.
CreateBranch(resp) ==
    IF resp.status = 400 /\ resp.same_name THEN "update"
    ELSE IF resp.status \notin {200, 201} THEN "raise"
    ELSE "return"

LookupBranch_Recreate(resp) ==
    IF resp.status = 200 THEN "update" ELSE "raise"

\* What it does with the answer to the lookup by file name: with status 200 and
\* a result it posts the data to the first result, otherwise it raises.
LookupBranch(resp) ==
    IF resp.status = 200 /\ Len(resp.results) > 0 THEN "update" ELSE "raise"

\* The first attachment the lookup lists.
LookupTarget(resp) == IF Len(resp.results) > 0 THEN resp.results[1] ELSE 0

\* A top-level call upload_attachment_to_page(page_id, filename, file_bytes).
CallUpload ==
    /\ pc = "idle"
    /\ ops < MaxOps
    /\ \E p \in UploadPages, fn \in UploadNames, b \in UploadBytes :
          /\ ua' = [page_id |-> p, filename |-> fn, bytes |-> b, att_id |-> 0]
          /\ log' = <<[ev |-> "call", op |-> "upload", title |-> fn, ok |-> TRUE]>>
    /\ pc' = "ua_create"
    /\ caller' = "top"
    /\ ops' = ops + 1
    /\ UNCHANGED <<pages, atts, order, np, ret, hist, faults, dir, cdata, auto>>

\* POST the file as a new attachment of the page.
UaCreate ==
    /\ pc = "ua_create"
    /\ \E resp \in AttPostResponses(ua.page_id, ua.filename) :
          LET b == CreateBranch(resp)
              s == Append(log, [ev |-> "att_post", page |-> ua.page_id,
                                filename |-> ua.filename, bytes |-> ua.bytes,
                                resp |-> resp,
                                ok |-> resp.status \in {200, 201} \/ b = "update"])
          IN /\ faults' = IF resp.status = 500 THEN faults + 1 ELSE faults
             /\ atts' = IF resp.status = 200
                        THEN AttsAfterPost(ua.page_id, ua.filename, ua.bytes)
                        ELSE atts
             /\ IF b = "update"
                THEN /\ pc' = "ua_lookup"
                     /\ log' = s
                     /\ UNCHANGED <<ret, hist>>
                ELSE Finish("upload", b, np, ua, s)
    /\ UNCHANGED <<pages, order, caller, np, ua, ops, dir, cdata, auto>>

\* GET the page's attachment of that file name.
UaLookup ==
    /\ pc = "ua_lookup"
    /\ \E resp \in AttGetResponses(ua.page_id, ua.filename) :
          LET b == LookupBranch(resp)
              u == [ua EXCEPT !.att_id = LookupTarget(resp)]
              s == Append(log, [ev |-> "att_get", page |-> ua.page_id,
                                filename |-> ua.filename, resp |-> resp,
                                ok |-> ~AttGetFailed(resp, ua.page_id, ua.filename)])
          IN /\ faults' = IF AttGetFailed(resp, ua.page_id, ua.filename)
                          THEN faults + 1 ELSE faults
             /\ IF b = "update"
                THEN /\ ua' = u
                     /\ pc' = "ua_update"
                     /\ log' = s
                     /\ UNCHANGED <<ret, hist>>
                ELSE /\ ua' = ua
                     /\ Finish("upload", "raise", np, ua, s)
    /\ UNCHANGED <<pages, atts, order, caller, np, ops, dir, cdata, auto>>

\* POST the file to the attachment's data endpoint.
UaUpdate ==
    /\ pc = "ua_update"
    /\ \E st \in AttDataStatuses(ua.page_id, ua.att_id) :
          LET s == Append(log, [ev |-> "att_data", page |-> ua.page_id,
                                att |-> ua.att_id, bytes |-> ua.bytes,
                                status |-> st, ok |-> st \in {200, 201}])
          IN /\ faults' = IF st = 500 THEN faults + 1 ELSE faults
             /\ atts' = IF st = 200 THEN AttsAfterData(ua.att_id, ua.bytes) ELSE atts
             /\ Finish("upload", IF st \in {200, 201} THEN "return" ELSE "raise",
                       np, ua, s)
    /\ UNCHANGED <<pages, order, caller, np, ua, ops, dir, cdata, auto>>

\* ------------------------------------------------ upload_ils_folder: files

\* The spelling of the file names the runs use (a string is atomic here).
Chars(n) ==
    CASE n = "a.ils" -> <<"a", ".", "i", "l", "s">>
      [] n = "B.PNG" -> <<"B", ".", "P", "N", "G">>
      [] n = "c.docx" -> <<"c", ".", "d", "o", "c", "x">>
      [] n = "d.txt" -> <<"d", ".", "t", "x", "t">>
      [] n = "ils" -> <<"i", "l", "s">>
      [] OTHER -> <<>>

\* The bytes of each file of the directory.
FileBytes(n) ==
    CASE n = "a.ils" -> 11
      [] n = "B.PNG" -> 12
      [] n = "c.docx" -> 13
      [] n = "d.txt" -> 14
      [] OTHER -> 15

\* str.lower(), on the letters the names use.
LowerChar(c) ==
    CASE c = "B" -> "b" [] c = "P" -> "p" [] c = "N" -> "n" [] c = "G" -> "g"
      [] OTHER -> c

Lower(cs) == [k \in 1..Len(cs) |-> LowerChar(cs[k])]

CODE_EXTENSIONS == {<<".", "i", "l", "s">>, <<".", "i", "l">>}
IMAGE_EXTENSIONS ==
    {<<".", "p", "n", "g">>, <<".", "j", "p", "g">>, <<".", "j", "p", "e", "g">>,
     <<".", "g", "i", "f">>, <<".", "b", "m", "p">>}
OFFICE_EXTENSIONS ==
    {<<".", "p", "p", "t", "x">>, <<".", "p", "p", "t">>, <<".", "x", "l", "s", "x">>,
     <<".", "x", "l", "s">>, <<".", "d", "o", "c", "x">>, <<".", "d", "o", "c">>}
ALL_SUPPORTED_EXTENSIONS == CODE_EXTENSIONS \cup IMAGE_EXTENSIONS \cup OFFICE_EXTENSIONS

\* str.endswith(suffix)
EndsWith(cs, suf) ==
    /\ Len(suf) <= Len(cs)
    /\ SubSeq(cs, Len(cs) - Len(suf) + 1, Len(cs)) = suf

IsSupported_Any(n) == TRUE

\* f.lower().endswith(ALL_SUPPORTED_EXTENSIONS)
IsSupported(n) == \E e \in ALL_SUPPORTED_EXTENSIONS : EndsWith(Lower(Chars(n)), e)

RECURSIVE SelectSupported(_)
\* The list comprehension over os.listdir: the supported names, in listing order.
SelectSupported(listing) ==
    IF listing = <<>> THEN <<>>
    ELSE (IF IsSupported(Head(listing)) THEN <<Head(listing)>> ELSE <<>>)
         \o SelectSupported(Tail(listing))

\* os.path.splitext(filename)[1].lower(): from the last dot on, unless the name
\* has no dot or only leading dots.
Ext(n) ==
    LET cs == Chars(n)
        dots == {k \in 1..Len(cs) : cs[k] = "."}
        last == IF dots = {} THEN 0 ELSE CHOOSE k \in dots : \A j \in dots : j <= k
    IN IF last = 0 \/ (\A k \in 1..last : cs[k] = ".") THEN <<>>
       ELSE Lower(SubSeq(cs, last, Len(cs)))

\* get_content_body_for_file: the template the wrapper page's body is made from,
\* with the file's name and, for code, its text.
ContentBodyForFile(n) ==
    IF Ext(n) \in CODE_EXTENSIONS THEN <<"code", n, FileBytes(n)>>
    ELSE IF Ext(n) \in IMAGE_EXTENSIONS THEN <<"image", n>>
    ELSE IF Ext(n) \in OFFICE_EXTENSIONS THEN <<"office", n>>
    ELSE <<"other", n>>

SectionContent == <<"section">>
ContainerContent == <<"container">>

\* --------------------------------------------- upload_ils_directory, by step

\* Directory uploads in one run.
MaxDirRuns == 1

Listings == { <<"a.ils", "d.txt", "B.PNG">>, <<"d.txt", "ils">>, <<"c.docx">> }

DirOnReturn_Abort(phase, kind) == kind # "raise"

\* Whether upload_ils_directory goes on after a call it made ended: an exception
\* from the section or the directory page's new_page makes it return, one from a
\* file's new_page or from its attachment block is printed and the loop goes on.
DirOnReturn(phase, kind) == ~(kind = "raise" /\ phase \in {"section", "directory"})

Marker(op, t) == [ev |-> "call", op |-> op, title |-> t, ok |-> TRUE]

\* The arguments of the three new_page calls, in the order the function makes
\* them: the section page under the configured parent, the directory page
\* under the section page, a file's page under the directory page.
DirectoryCall(d) == [title |-> d.title, content |-> ContainerContent, parent |-> d.section]

SectionCall_DirectoryFirst(d) == DirectoryCall(d)

SectionCall(d) ==
    [title |-> d.section, content |-> SectionContent, parent |-> PARENT_PAGE_TITLE]

WrapperCall(d, f) == [title |-> f, content |-> ContentBodyForFile(f), parent |-> d.title]

\* upload_ils_directory returns.
DirEnd(phase, s) ==
    /\ pc' = "idle"
    /\ dir' = [dir EXCEPT !.phase = phase]
    /\ log' = s
    /\ ret' = [op |-> "dir", kind |-> "return"]
    /\ UNCHANGED <<np, ua, pages, atts>>

\* upload_ils_directory calls new_page(c.title, c.content, parent=c.parent).
DirCallNewPage(d, c, s) ==
    /\ pc' = "np_resolve"
    /\ dir' = d
    /\ np' = NpLocals(c.title, c.content, c.parent)
    /\ log' = Append(s, Marker("new_page", c.title))
    /\ UNCHANGED <<ua, ret, pages, atts>>

\* The loop moves to the file after files[d.i], or ends.
DirAdvance(d, s) ==
    IF d.i < Len(d.files)
    THEN DirCallNewPage([d EXCEPT !.i = d.i + 1, !.phase = "page"],
                        WrapperCall(d, d.files[d.i + 1]), s)
    ELSE /\ pc' = "idle"
         /\ dir' = [d EXCEPT !.phase = "complete"]
         /\ log' = s
         /\ ret' = [op |-> "dir", kind |-> "return"]
         /\ UNCHANGED <<np, ua, pages, atts>>

\* A call upload_ils_directory(directory_path, "Dir", "Sec"), up to the first
\* new_page: the section page under the configured parent.
CallDir ==
    /\ pc = "idle"
    /\ ops < MaxDirRuns
    /\ ops' = ops + 1
    /\ caller' = "dir"
    /\ \E ex \in BOOLEAN, ls \in Listings :
          LET d == [exists |-> ex, listing |-> ls, section |-> "Sec", title |-> "Dir",
                    files |-> <<>>, i |-> 0, phase |-> "section"]
              s == <<Marker("dir", "Dir")>>
          IN IF ~ex
             THEN /\ pc' = "idle"
                  /\ dir' = [d EXCEPT !.phase = "missing"]
                  /\ log' = s
                  /\ ret' = [op |-> "dir", kind |-> "return"]
                  /\ UNCHANGED <<np, ua, pages, atts>>
             ELSE DirCallNewPage(d, SectionCall(d), s)
    /\ UNCHANGED <<order, hist, faults, cdata, auto>>

\* After the section page's new_page: the directory page under the section page.
DirAfterSection ==
    /\ pc = "dir_ret"
    /\ dir.phase = "section"
    /\ IF DirOnReturn(dir.phase, ret.kind)
       THEN DirCallNewPage([dir EXCEPT !.phase = "directory"], DirectoryCall(dir), log)
       ELSE DirEnd("aborted", log)
    /\ UNCHANGED <<order, caller, hist, ops, faults, cdata, auto>>

\* After the directory page's new_page: list the supported files and start the loop.
DirAfterDirectory ==
    /\ pc = "dir_ret"
    /\ dir.phase = "directory"
    /\ LET files == SelectSupported(dir.listing)
       IN IF ~DirOnReturn(dir.phase, ret.kind) THEN DirEnd("aborted", log)
          ELSE IF Len(files) = 0 THEN DirEnd("nofiles", log)
          ELSE DirAdvance([dir EXCEPT !.files = files, !.i = 0], log)
    /\ UNCHANGED <<order, caller, hist, ops, faults, cdata, auto>>

\* After a file's new_page: sub_page_id = get_page_id_by_title(page_title), then
\* the call of upload_attachment_to_page; an exception ends this file.
DirLookup ==
    /\ pc = "dir_ret"
    /\ dir.phase = "page"
    /\ LET f == dir.files[dir.i]
       IN IF ~DirOnReturn(dir.phase, ret.kind)
          THEN DirEnd("aborted", log) /\ UNCHANGED faults
          ELSE \E resp \in GetResponses(f) :
                 LET r == GetPageIdByTitle(resp)
                     s == log \o <<Marker("get_page_id_by_title", f),
                                   [ev |-> "get_by_title", by |-> "dir", title |-> f,
                                    resp |-> resp, out |-> r, ok |-> ~GetFailed(resp)]>>
                 IN /\ faults' = IF GetFailed(resp) THEN faults + 1 ELSE faults
                    /\ IF r.kind = "raise"
                       THEN DirAdvance(dir, s)
                       ELSE /\ pc' = "ua_create"
                            /\ dir' = [dir EXCEPT !.phase = "attach"]
                            /\ ua' = [page_id |-> r.id, filename |-> f,
                                      bytes |-> FileBytes(f), att_id |-> 0]
                            /\ log' = Append(s, Marker("upload", f))
                            /\ UNCHANGED <<np, ret, pages, atts>>
    /\ UNCHANGED <<order, caller, hist, ops, cdata, auto>>

\* After a file's upload_attachment_to_page: the next file.
DirAfterAttach ==
    /\ pc = "dir_ret"
    /\ dir.phase = "attach"
    /\ IF DirOnReturn(dir.phase, ret.kind)
       THEN DirAdvance(dir, log)
       ELSE DirEnd("aborted", log)
    /\ UNCHANGED <<order, caller, hist, ops, faults, cdata, auto>>

\* ------------------------------------------- code block bodies, by character

\* Longest source text.
MaxTextLen == 5

\* The characters the source texts are made of; CR and LF are the carriage
\* return and the line feed.
TextChars == {"]", ">", "CR", "LF"}

RECURSIVE TextsOfLen(_)
TextsOfLen(n) ==
    IF n = 0 THEN {<<>>}
    ELSE {Append(t, c) : t \in TextsOfLen(n - 1), c \in TextChars}

\* The texts a source file can hold.
Texts == UNION {TextsOfLen(n) : n \in 0..MaxTextLen}

StartsWith(s, pre) == Len(pre) <= Len(s) /\ SubSeq(s, 1, Len(pre)) = pre

Drop(s, n) == SubSeq(s, n + 1, Len(s))

RECURSIVE Replace(_, _, _)
\* str.replace(old, new): every occurrence of old, found left to right without
\* overlap, becomes new.
Replace(s, old, new) ==
    IF Len(s) < Len(old) THEN s
    ELSE IF StartsWith(s, old) THEN new \o Replace(Drop(s, Len(old)), old, new)
    ELSE <<Head(s)>> \o Replace(Tail(s), old, new)

RECURSIVE ReadText(_)
\* open(file_path, 'r').read(): text mode translates the line ends CR LF and CR
\* to LF.
ReadText(f) ==
    IF f = <<>> THEN <<>>
    ELSE IF StartsWith(f, <<"CR", "LF">>) THEN <<"LF">> \o ReadText(Drop(f, 2))
    ELSE IF Head(f) = "CR" THEN <<"LF">> \o ReadText(Tail(f))
    ELSE <<Head(f)>> \o ReadText(Tail(f))

CdataStart == <<"<", "!", "[", "C", "D", "A", "T", "A", "[">>
CdataEnd == <<"]", "]", ">">>

\* What follows the CDATA section in the templates: the closing tag of
\* ac:plain-text-body.
BodyClose == <<"<", "/", "ac:plain-text-body", ">">>

EscapeCdata_None(s) == s

\* safe_content = raw_content.replace(']]>', ']]]]><![CDATA[>')
EscapeCdata(s) == Replace(s, CdataEnd, <<"]", "]">> \o CdataEnd \o CdataStart \o <<">">>)

\* safe_content = file_content.replace('\r\n', '\n')
NormaliseNewlines(s) == Replace(s, <<"CR", "LF">>, <<"LF">>)

\* The code block of the templates from its CDATA section on:
\* <![CDATA[{safe_content}]]></ac:plain-text-body>
CodeBlock(safe_content) == CdataStart \o safe_content \o CdataEnd \o BodyClose

\* get_content_body_for_file for a code file: read the text, escape it, fill the
\* template.
FolderCodeBody(f) == CodeBlock(EscapeCdata(ReadText(f)))

\* upload_skill_file: read the text, normalise the line ends, escape, fill the
\* template.
SkillCodeBody(f) == CodeBlock(EscapeCdata(NormaliseNewlines(ReadText(f))))

RECURSIVE UntilEnd(_)
\* The text of a CDATA section: the characters before the first ]]>.
UntilEnd(s) ==
    IF s = <<>> \/ StartsWith(s, CdataEnd) THEN <<>>
    ELSE <<Head(s)>> \o UntilEnd(Tail(s))

RECURSIVE ParseCdata(_)
\* A storage-format parser reading character data: the text of consecutive
\* CDATA sections, and the markup left after the last of them.
ParseCdata(s) ==
    IF ~StartsWith(s, CdataStart) THEN [text |-> <<>>, rest |-> s]
    ELSE LET inner == Drop(s, Len(CdataStart))
             t == UntilEnd(inner)
             after == Drop(inner, Len(t) + Len(CdataEnd))
             more == ParseCdata(after)
         IN [text |-> t \o more.text, rest |-> more.rest]

NoCdata == [file |-> <<>>, access |-> "ok", by |-> "none", title |-> "",
            body |-> <<>>, phase |-> "none"]

\* What get_content_body_for_file returns when the file cannot be read.
ReadErrorBody == <<"<p>Error reading file content.</p>">>

\* get_content_body_for_file(filename, file_path) on a code file: the code
\* block of the file's text, or the error text when reading raises.
CdataFolder ==
    /\ pc = "idle"
    /\ cdata.by = "none"
    /\ cdata' = [cdata EXCEPT !.by = "upload_ils_folder",
                              !.body = IF cdata.access = "ok"
                                       THEN FolderCodeBody(cdata.file)
                                       ELSE ReadErrorBody,
                              !.phase = IF cdata.access = "ok" THEN "built" ELSE "failed"]
    /\ UNCHANGED <<pages, atts, order, pc, caller, np, ua, ret, log, hist, ops, faults, dir, auto>>

\* ------------------------------------------------ upload_skill_file, by step

\* The file's name and the page titles the function is called with ("" for
\* none, the title is then the file's name).
SkillFileName == "x.ils"
SkillTitles == {"T", ""}

\* upload_skill_file returns (it catches the exceptions of its lookup and its
\* upload), or ends with the exception of its new_page.
SkillEnd(c, kind, s) ==
    /\ pc' = "idle"
    /\ cdata' = c
    /\ ret' = [op |-> "skill", kind |-> kind]
    /\ log' = s
    /\ UNCHANGED <<np, ua>>

\* A call upload_skill_file(file_path, page_title), up to its new_page: return
\* when the file does not exist or cannot be read, else build the page body
\* and upsert the page under the configured parent.
CdataSkill ==
    /\ pc = "idle"
    /\ cdata.by = "none"
    /\ caller' = "skill"
    /\ \E t \in SkillTitles :
          LET title == IF t = "" THEN SkillFileName ELSE t
              c == [cdata EXCEPT !.by = "upload_ils", !.title = title]
              s == <<Marker("skill", title)>>
          IN IF cdata.access # "ok"
             THEN SkillEnd([c EXCEPT !.phase = cdata.access], "return", s)
             ELSE /\ cdata' = [c EXCEPT !.body = SkillCodeBody(cdata.file),
                                        !.phase = "page"]
                  /\ np' = NpLocals(title, SkillCodeBody(cdata.file), PARENT_PAGE_TITLE)
                  /\ pc' = "np_resolve"
                  /\ log' = Append(s, Marker("new_page", title))
                  /\ UNCHANGED <<ua, ret>>
    /\ UNCHANGED <<pages, atts, order, hist, ops, faults, dir, auto>>

\* After new_page: page_id = get_page_id_by_title(page_title), on an exception
\* print and return; then the call of upload_attachment_to_page with the
\* file's bytes.
SkillLookup ==
    /\ pc = "skill_ret"
    /\ cdata.phase = "page"
    /\ IF ret.kind = "raise"
       THEN SkillEnd([cdata EXCEPT !.phase = "raised"], "raise", log) /\ UNCHANGED faults
       ELSE \E resp \in GetResponses(cdata.title) :
              LET r == GetPageIdByTitle(resp)
                  s == log \o <<Marker("get_page_id_by_title", cdata.title),
                                [ev |-> "get_by_title", by |-> "skill",
                                 title |-> cdata.title, resp |-> resp,
                                 out |-> r, ok |-> ~GetFailed(resp)]>>
              IN /\ faults' = IF GetFailed(resp) THEN faults + 1 ELSE faults
                 /\ IF r.kind = "raise"
                    THEN SkillEnd([cdata EXCEPT !.phase = "nopage"], "return", s)
                    ELSE /\ pc' = "ua_create"
                         /\ cdata' = [cdata EXCEPT !.phase = "attach"]
                         /\ ua' = [page_id |-> r.id, filename |-> SkillFileName,
                                   bytes |-> cdata.file, att_id |-> 0]
                         /\ log' = Append(s, Marker("upload", SkillFileName))
                         /\ UNCHANGED <<np, ret>>
    /\ UNCHANGED <<pages, atts, order, caller, hist, ops, dir, auto>>

\* After the upload, whose exception is printed: the function returns.
SkillAfterUpload ==
    /\ pc = "skill_ret"
    /\ cdata.phase = "attach"
    /\ SkillEnd([cdata EXCEPT !.phase = "done"], "return", log)
    /\ UNCHANGED <<pages, atts, order, caller, hist, ops, faults, dir, auto>>

\* ---------------------------- create_confluence_automation_page, by step

\* The page the function upserts (the title 'Confluence Automation'; X stands
\* for it here, so that the platform states with a page X apply).
AutomationTitle == "X"

\* The page's content at the first new_page (a placeholder for the plot) and
\* at the second (the image macro for plot.png).
PlaceholderContent == <<"automation", "placeholder">>
ImageContent == <<"automation", "image">>

\* The attachment's name and the bytes of the rendered plot.
PlotName == "plot.png"
PlotBytes == 1

\* create_confluence_automation_page ends: with a return, or with the exception
\* of a call it made, which nothing in it catches.
AutoEnd(phase, kind, s) ==
    /\ pc' = "idle"
    /\ auto' = [phase |-> phase]
    /\ ret' = [op |-> "auto", kind |-> kind]
    /\ log' = s
    /\ hist' = Append(hist, HistEntry("auto", kind, np, ua, s))
    /\ UNCHANGED <<np, ua>>

\* A call create_confluence_automation_page(), up to the first new_page; with
\* a required setting missing it prints and returns.
CallAutomation ==
    /\ pc = "idle"
    /\ ops < MaxOps
    /\ ops' = ops + 1
    /\ caller' = "auto"
    /\ \E configured \in BOOLEAN :
          IF ~configured
          THEN AutoEnd("unconfigured", "return", <<Marker("auto", AutomationTitle)>>)
          ELSE /\ pc' = "np_resolve"
               /\ auto' = [phase |-> "first"]
               /\ np' = NpLocals(AutomationTitle, PlaceholderContent, PARENT_PAGE_TITLE)
               /\ log' = <<Marker("auto", AutomationTitle),
                           Marker("new_page", AutomationTitle)>>
               /\ UNCHANGED <<ua, ret, hist>>
    /\ UNCHANGED <<pages, atts, order, faults, dir, cdata>>

\* After the first new_page: page_id = get_page_id_by_title(title), then the
\* call of upload_attachment_to_page(page_id, "plot.png", img_bytes).
AutoLookup ==
    /\ pc = "auto_ret"
    /\ auto.phase = "first"
    /\ IF ret.kind = "raise"
       THEN AutoEnd("raised", "raise", log) /\ UNCHANGED faults
       ELSE \E resp \in GetResponses(AutomationTitle) :
              LET r == GetPageIdByTitle(resp)
                  s == log \o <<Marker("get_page_id_by_title", AutomationTitle),
                                [ev |-> "get_by_title", by |-> "auto",
                                 title |-> AutomationTitle, resp |-> resp,
                                 out |-> r, ok |-> ~GetFailed(resp)]>>
              IN /\ faults' = IF GetFailed(resp) THEN faults + 1 ELSE faults
                 /\ IF r.kind = "raise"
                    THEN AutoEnd("raised", "raise", s)
                    ELSE /\ pc' = "ua_create"
                         /\ auto' = [phase |-> "attach"]
                         /\ ua' = [page_id |-> r.id, filename |-> PlotName,
                                   bytes |-> PlotBytes, att_id |-> 0]
                         /\ log' = Append(s, Marker("upload", PlotName))
                         /\ UNCHANGED <<np, ret, hist>>
    /\ UNCHANGED <<pages, atts, order, caller, ops, dir, cdata>>

\* After the upload: new_page again, with the content that shows the image.
AutoAfterUpload ==
    /\ pc = "auto_ret"
    /\ auto.phase = "attach"
    /\ IF ret.kind = "raise"
       THEN AutoEnd("raised", "raise", log)
       ELSE /\ pc' = "np_resolve"
            /\ auto' = [phase |-> "second"]
            /\ np' = NpLocals(AutomationTitle, ImageContent, PARENT_PAGE_TITLE)
            /\ log' = Append(log, Marker("new_page", AutomationTitle))
            /\ UNCHANGED <<ua, ret, hist>>
    /\ UNCHANGED <<pages, atts, order, caller, ops, faults, dir, cdata>>

\* After the second new_page the function ends.
AutoAfterSecond ==
    /\ pc = "auto_ret"
    /\ auto.phase = "second"
    /\ AutoEnd(IF ret.kind = "raise" THEN "raised" ELSE "complete", ret.kind, log)
    /\ UNCHANGED <<pages, atts, order, caller, ops, faults, dir, cdata>>

\* ------------------------------------------------------ an external writer

\* Edits by the external writer during one call.
MaxExternal == 1

ExternalBody == <<"text", "external">>

\* The log entries of the external writer's edits.
Externals(s) == {k \in 1..Len(s) : s[k].ev = "ext"}

\* Another user of the platform edits a page titled like the one new_page is
\* upserting, before or after new_page's title query: an accepted update, the
\* page's version grows by one.
ExternalUpdate ==
    /\ pc \in {"np_query", "np_write"}
    /\ Cardinality(Externals(CurLog(log))) < MaxExternal
    /\ \E i \in PageIds :
          /\ pages[i].title = np.title
          /\ pages' = [pages EXCEPT ![i] = [@ EXCEPT !.version = @ + 1,
                                                     !.body = ExternalBody]]
          /\ log' = Append(log, [ev |-> "ext", page |-> i,
                                 version |-> pages[i].version + 1, ok |-> TRUE])
    /\ UNCHANGED <<atts, order, pc, caller, np, ua, ret, hist, ops, faults, dir, cdata, auto>>

\* ------------------------------------------------------------ the machine

Home == [title |-> "Home", parent |-> NoPage, version |-> 1, body |-> <<"text", "home">>]
Other == [title |-> "Other", parent |-> 1, version |-> 1, body |-> <<"text", "other">>]
Page(t, p, v) == [title |-> t, parent |-> p, version |-> v, body |-> <<"text", "old">>]

\* The platform states a run starts from: the space's home page, an unrelated
\* page, and pages titled X under one, the other or both.
InitPages ==
    { <<Home>>,
      <<Home, Other>>,
      <<Home, Other, Page("X", 2, 2)>>,
      <<Home, Other, Page("X", 1, 3)>>,
      <<Home, Other, Page("X", 2, 2), Page("X", 1, 3)>> }

Init ==
    /\ pages \in InitPages
    /\ atts = <<>>
    /\ order \in {"asc", "desc"}
    /\ pc = "idle"
    /\ caller = "top"
    /\ np = NoNp
    /\ ua = NoUa
    /\ ret = [op |-> "none", kind |-> "return"]
    /\ log = <<>>
    /\ hist = <<>>
    /\ ops = 0
    /\ faults = 0
    /\ dir = NoDir
    /\ cdata = NoCdata
    /\ auto = NoAuto

Next ==
    \/ CallNewPage
    \/ NpResolveParent
    \/ NpQuery
    \/ NpUpdate
    \/ NpCreate
    \/ CallUpload
    \/ UaCreate
    \/ UaLookup
    \/ UaUpdate
    \/ CallAutomation
    \/ AutoLookup
    \/ AutoAfterUpload
    \/ AutoAfterSecond

Spec == Init /\ [][Next]_vars

\* A step of a call in progress: a request and the handling of its answer.
EngineStep ==
    \/ NpResolveParent
    \/ NpQuery
    \/ NpUpdate
    \/ NpCreate
    \/ UaCreate
    \/ UaLookup
    \/ UaUpdate

\* Calls in one run of the fair specification.
MaxFairCalls == 1

\* An attachment that an earlier upload left on the home page.
Plot == [page |-> 1, filename |-> "plot.png", bytes |-> 1, version |-> 1]

\* As Init, and the platform may hold an attachment already.
FairInit ==
    /\ pages \in InitPages
    /\ atts \in {<<>>, <<Plot>>}
    /\ order \in {"asc", "desc"}
    /\ pc = "idle"
    /\ caller = "top"
    /\ np = NoNp
    /\ ua = NoUa
    /\ ret = [op |-> "none", kind |-> "return"]
    /\ log = <<>>
    /\ hist = <<>>
    /\ ops = 0
    /\ faults = 0
    /\ dir = NoDir
    /\ cdata = NoCdata
    /\ auto = NoAuto

\* A top-level call of either operation.
FairCall ==
    /\ ops < MaxFairCalls
    /\ (CallNewPage \/ CallUpload)

FairNext ==
    \/ FairCall
    \/ NpResolveParent
    \/ NpQuery
    \/ NpUpdate
    \/ NpCreate
    \/ UaCreate
    \/ UaLookup
    \/ UaUpdate

\* The calls are synchronous and every request gets an answer: a call in
\* progress takes its next step.
FairSpec == FairInit /\ [][FairNext]_vars /\ WF_vars(EngineStep)

Sec == [title |-> "Sec", parent |-> 1, version |-> 1, body |-> SectionContent]
Dir == [title |-> "Dir", parent |-> 2, version |-> 1, body |-> ContainerContent]

\* The platform states a directory upload starts from: an empty space, a space
\* where an unrelated page has a child titled like a file, and a space that an
\* earlier upload of the directory filled.
DirInitPlatforms ==
    { [pages |-> <<Home>>, atts |-> <<>>],
      [pages |-> <<Home, Other, Page("a.ils", 2, 1)>>, atts |-> <<>>],
      [pages |-> <<Home, Sec, Dir, Page("a.ils", 3, 2)>>,
       atts |-> <<[page |-> 4, filename |-> "a.ils", bytes |-> 10, version |-> 1]>>] }

DirInit ==
    /\ \E pl \in DirInitPlatforms : pages = pl.pages /\ atts = pl.atts
    /\ order \in {"asc", "desc"}
    /\ pc = "idle"
    /\ caller = "dir"
    /\ np = NoNp
    /\ ua = NoUa
    /\ ret = [op |-> "none", kind |-> "return"]
    /\ log = <<>>
    /\ hist = <<>>
    /\ ops = 0
    /\ faults = 0
    /\ dir = NoDir
    /\ cdata = NoCdata
    /\ auto = NoAuto

DirNext ==
    \/ CallDir
    \/ DirAfterSection
    \/ DirAfterDirectory
    \/ DirLookup
    \/ DirAfterAttach
    \/ NpResolveParent
    \/ NpQuery
    \/ NpUpdate
    \/ NpCreate
    \/ UaCreate
    \/ UaLookup
    \/ UaUpdate

DirSpec == DirInit /\ [][DirNext]_vars

\* The platform states upload_skill_file starts from: the home page alone, and
\* a space where an earlier run left the page T with the file attached.
CdataInitPlatforms ==
    { [pages |-> <<Home>>, atts |-> <<>>],
      [pages |-> <<Home, Page("T", 1, 1)>>,
       atts |-> <<[page |-> 2, filename |-> SkillFileName, bytes |-> <<>>,
                   version |-> 1]>>] }

\* The source files: every text, and a file that is missing or unreadable.
CdataFiles ==
    {[file |-> f, access |-> "ok"] : f \in Texts}
    \cup {[file |-> <<>>, access |-> a] : a \in {"missing", "unreadable"}}

CdataInit ==
    /\ \E pl \in CdataInitPlatforms : pages = pl.pages /\ atts = pl.atts
    /\ order = "asc"
    /\ pc = "idle"
    /\ caller = "top"
    /\ np = NoNp
    /\ ua = NoUa
    /\ ret = [op |-> "none", kind |-> "return"]
    /\ log = <<>>
    /\ hist = <<>>
    /\ ops = 0
    /\ faults = 0
    /\ dir = NoDir
    /\ \E f \in CdataFiles :
          cdata = [NoCdata EXCEPT !.file = f.file, !.access = f.access]
    /\ auto = NoAuto

CdataNext ==
    \/ CdataFolder
    \/ CdataSkill
    \/ SkillLookup
    \/ SkillAfterUpload
    \/ NpResolveParent
    \/ NpQuery
    \/ NpUpdate
    \/ NpCreate
    \/ UaCreate
    \/ UaLookup
    \/ UaUpdate

CdataSpec == CdataInit /\ [][CdataNext]_vars

\* Calls of new_page in one run with the external writer.
MaxRaceCalls == 1

RaceCall ==
    /\ ops < MaxRaceCalls
    /\ CallNewPage

\* new_page while an external writer edits the same pages.
RaceNext ==
    \/ RaceCall
    \/ NpResolveParent
    \/ NpQuery
    \/ ExternalUpdate
    \/ NpUpdate
    \/ NpCreate

RaceSpec == Init /\ [][RaceNext]_vars

\* ================================================================== claims

NpEnded == pc \in ReturnPcs /\ ret.op = "new_page"
UaEnded == pc \in ReturnPcs /\ ret.op = "upload"

Writes(s) == {k \in 1..Len(s) : s[k].ev \in {"put", "post"}}
Posts(s) == {k \in 1..Len(s) : s[k].ev = "post"}
Puts(s) == {k \in 1..Len(s) : s[k].ev = "put"}
Queries(s) == {k \in 1..Len(s) : s[k].ev = "query"}

\* The title query's answer made resp.json() raise.
QueryRaised(e) == e.resp.status = 200 /\ ~e.resp.json

\* C1 (as claimed): while a page with the title exists under the resolved parent,
\* every write new_page issues is a PUT to that page that declares the page's
\* version + 1; it is never a POST.
C1_UpdateNeverCreate ==
    \A k \in Writes(log) :
        log[k].had # NoPage =>
            /\ log[k].ev = "put"
            /\ log[k].page = log[k].had
            /\ log[k].payload.version = log[k].cur + 1

\* The consequent of C2: one POST, no PUT, and the POST's ancestors are the
\* resolved parent alone.
CreatedOnceUnder(s, parent_id) ==
    /\ Cardinality(Posts(s)) = 1
    /\ Puts(s) = {}
    /\ \A k \in Posts(s) : s[k].payload.ancestors = <<parent_id>>

\* C2 (as claimed): when new_page has ended, its parent resolved and no page
\* with the title was under the resolved parent, it issued exactly one POST, no
\* PUT, and the POST's ancestors are [resolved parent id].
C2_Original ==
    NpEnded =>
        \A q \in Queries(CurLog(log)) :
            CurLog(log)[q].had = NoPage =>
                CreatedOnceUnder(CurLog(log), CurLog(log)[q].par)

\* C2 (amended): the same, when decoding the title query's answer did not raise
\* (a 200 whose body is not JSON ends new_page with an exception before any write).
C2_CreateOnce ==
    NpEnded =>
        \A q \in Queries(CurLog(log)) :
            (CurLog(log)[q].had = NoPage /\ ~QueryRaised(CurLog(log)[q])) =>
                CreatedOnceUnder(CurLog(log), CurLog(log)[q].par)

\* A new_page that found no page under a parent other than the home page and
\* created one there, while a page of that title existed elsewhere.
C2_Witness ==
    /\ NpEnded
    /\ \E q \in Queries(CurLog(log)), k \in Posts(CurLog(log)) :
          /\ CurLog(log)[q].had = NoPage
          /\ Len(CurLog(log)[q].resp.results) > 0
          /\ CurLog(log)[k].status = 200
          /\ CurLog(log)[k].par = 2

\* C3: new_page never selects as its update target, and never sends a PUT to, a
\* page whose last ancestor is not the parent it resolved.
C3_NeverOtherParent ==
    /\ (pc = "np_write" /\ np.page_exists) => pages[np.page_id].parent = np.parent_id
    /\ \A k \in Puts(log) : log[k].tpar = log[k].par

\* An accepted PUT to the page under the resolved parent although the title
\* query listed the same-titled page of another parent first.
C3_Witness ==
    \E q \in Queries(log), k \in Puts(log) :
        /\ q < k
        /\ Len(log[q].resp.results) = 2
        /\ log[q].resp.results[1].id # log[k].page
        /\ pages[log[q].resp.results[1].id].parent # log[k].par
        /\ log[k].status = 200

\* The finished calls are k >= 1 calls new_page(X, body_i, P) with one X and one
\* P, P resolved, and no page titled X was under P when the first began.
SameUpsertRun ==
    /\ pc = "idle"
    /\ Len(hist) >= 1
    /\ \A k \in 1..Len(hist) :
          /\ hist[k].op = "new_page"
          /\ hist[k].title = hist[1].title
          /\ hist[k].parent = hist[1].parent
    /\ hist[1].pid # NoPage
    /\ hist[1].had = NoPage

\* Exactly one page titled X is under P; its body is the last call's and its
\* version the number of calls.
OnePageAfterRun ==
    LET under == {i \in PageIds : pages[i].title = hist[1].title
                                  /\ pages[i].parent = hist[1].pid}
    IN /\ Cardinality(under) = 1
       /\ \A i \in under : /\ pages[i].body = hist[Len(hist)].content
                           /\ pages[i].version = Len(hist)

\* C4 (as claimed): after k consecutive new_page(X, body_i, P) that began with no
\* page titled X under P, one page titled X is under P, with body_k and version k.
C4_Original == SameUpsertRun => OnePageAfterRun

\* C4 (amended): the same, when every request of the k calls was answered with
\* success.
C4_KCalls ==
    (SameUpsertRun /\ \A k \in 1..Len(hist) : hist[k].clean) => OnePageAfterRun

\* Two successful calls with different bodies.
C4_Witness ==
    /\ SameUpsertRun
    /\ Len(hist) = 2
    /\ hist[1].clean /\ hist[2].clean
    /\ hist[1].content # hist[2].content

\* The last two finished calls are upload_attachment_to_page with the same
\* existing page and the same file name, and different bytes.
TwoUploads ==
    /\ pc = "idle"
    /\ Len(hist) >= 2
    /\ hist[Len(hist) - 1].op = "upload"
    /\ hist[Len(hist)].op = "upload"
    /\ hist[Len(hist) - 1].page = hist[Len(hist)].page
    /\ hist[Len(hist) - 1].filename = hist[Len(hist)].filename
    /\ hist[Len(hist) - 1].bytes # hist[Len(hist)].bytes
    /\ hist[Len(hist)].page \in PageIds

\* The page has exactly one attachment of that name, with the second call's bytes.
OneAttachmentAfter ==
    LET named == {a \in 1..Len(atts) : /\ atts[a].page = hist[Len(hist)].page
                                       /\ atts[a].filename = hist[Len(hist)].filename}
    IN /\ Cardinality(named) = 1
       /\ \A a \in named : atts[a].bytes = hist[Len(hist)].bytes

\* C5 (as claimed): two calls in succession with the same (page_id, filename)
\* and different bytes leave exactly one attachment of that name on the page,
\* holding the second call's bytes.
C5_Original == TwoUploads => OneAttachmentAfter

\* C5 (amended): the same, when the second call returned (did not raise).
C5_TwiceOne == (TwoUploads /\ hist[Len(hist)].kind = "return") => OneAttachmentAfter

\* Both calls returned: the first created the attachment, the second updated it.
C5_Witness ==
    /\ TwoUploads
    /\ hist[Len(hist) - 1].kind = "return"
    /\ hist[Len(hist)].kind = "return"
    /\ \E a \in 1..Len(atts) : atts[a].version = 2

\* A page write or attachment write that got a non-success status (the 400
\* "same file name" that sends the upload to its update path aside).
FailedWrites(s) ==
    {k \in 1..Len(s) : s[k].ev \in {"put", "post", "att_post", "att_data"} /\ ~s[k].ok}

\* C6 (as claimed): when a page write or an attachment write got a non-success
\* status, the call ends by signalling an error to its caller.
C6_WriteFailureSignalled ==
    (pc = "idle" /\ ret.op \in {"new_page", "upload"} /\ FailedWrites(log) # {})
        => ret.kind = "raise"

Lookups(s) == {k \in 1..Len(s) : s[k].ev = "get_by_title"}

\* C7: when its query is answered with a result list, get_page_id_by_title
\* raises if the list is empty and never returns an empty id; otherwise it
\* returns the id of the first result.
C7_Resolve ==
    \A k \in Lookups(log) :
        (log[k].resp.status = 200 /\ log[k].resp.json) =>
            IF Len(log[k].resp.results) = 0
            THEN log[k].out.kind = "raise"
            ELSE /\ log[k].out.kind = "ok"
                 /\ log[k].out.id = log[k].resp.results[1].id
                 /\ log[k].out.id # NoPage

\* A lookup that raised on an empty list, and one that returned the first of
\* two results.
C7_Witness ==
    /\ \E k \in Lookups(log) :
          /\ log[k].resp.status = 200 /\ log[k].resp.json
          /\ Len(log[k].resp.results) = 0
          /\ log[k].out.kind = "raise"
    /\ \E k \in Lookups(log) :
          /\ Len(log[k].resp.results) = 2
          /\ log[k].out.kind = "ok"

UploadRunning == pc \in {"ua_create", "ua_lookup", "ua_update"} \/ UaEnded

Collision(e) == e.ev = "att_post" /\ e.resp.status = 400 /\ e.resp.same_name

Found(e) == e.resp.status = 200 /\ Len(e.resp.results) > 0

\* C8: after a create POST answered 400 "same file name", the next request is
\* the lookup of the page's attachment of that file name; if it finds one, the
\* next request POSTs the call's bytes to that attachment's data endpoint; if
\* it finds none, the call raises without another request.
C8_CollisionPath ==
    LET s == CurLog(log)
    IN (UploadRunning /\ Len(s) >= 1 /\ Collision(s[1])) =>
          /\ Len(s) = 1 => pc = "ua_lookup"
          /\ Len(s) >= 2 =>
                /\ s[2].ev = "att_get"
                /\ s[2].page = ua.page_id
                /\ s[2].filename = ua.filename
                /\ IF Found(s[2])
                   THEN /\ Len(s) = 2 => pc = "ua_update"
                        /\ Len(s) >= 3 =>
                              /\ s[3].ev = "att_data"
                              /\ s[3].page = ua.page_id
                              /\ s[3].att = s[2].resp.results[1]
                              /\ s[3].bytes = ua.bytes
                   ELSE /\ Len(s) = 2
                        /\ UaEnded
                        /\ ret.kind = "raise"

\* A collision whose lookup listed nothing: the call raised after two requests.
C8_Witness ==
    LET s == CurLog(log)
    IN /\ UploadRunning
       /\ Len(s) = 2
       /\ Collision(s[1])
       /\ s[2].resp = [status |-> 200, results |-> <<>>]
       /\ ret.kind = "raise"

Range(q) == {q[k] : k \in 1..Len(q)}

DirEnded == pc = "idle" /\ ret.op = "dir"

\* The directory page of the run: the page titled dir.title under the section
\* page under the configured parent.
SectionPage == PageUnder(dir.section, PageUnder(PARENT_PAGE_TITLE, NoPage))
DirectoryPage == IF SectionPage = NoPage THEN NoPage ELSE PageUnder(dir.title, SectionPage)

\* File n has its wrapper page under the directory page, and that page has
\* exactly one attachment named n, holding the file's bytes.
WrapperHoldsFile(n) ==
    LET w == PageUnder(n, DirectoryPage)
        named == {a \in 1..Len(atts) : atts[a].page = w /\ atts[a].filename = n}
    IN /\ w # NoPage
       /\ Cardinality(named) = 1
       /\ \A a \in named : atts[a].bytes = FileBytes(n)

\* Nothing was written for entry n: no new_page, no lookup and no upload for it.
NothingFor(n) ==
    \A k \in 1..Len(log) :
        /\ log[k].ev = "call" => (log[k].op = "dir" \/ log[k].title # n)
        /\ log[k].ev \in {"put", "post"} => log[k].payload.title # n
        /\ log[k].ev = "att_post" => log[k].filename # n

\* C9 (as claimed, for a run whose every request was answered with success):
\* when upload_ils_directory has run through its loop, the section page and the
\* directory page under it exist, every supported entry has its wrapper page
\* under the directory page with one attachment holding the file's bytes, and
\* nothing was written for an unsupported entry.
C9_Scenario ==
    (DirEnded /\ dir.phase = "complete" /\ Clean(log)) =>
        /\ DirectoryPage # NoPage
        /\ \A n \in Range(dir.listing) :
              IF IsSupported(n) THEN WrapperHoldsFile(n) ELSE NothingFor(n)

\* The calls upload_ils_directory made for file n.
CalledFor(op, n) == \E k \in 1..Len(log) : log[k] = Marker(op, n)

\* The lookup of file n's page returned an id.
LookedUp(n) ==
    \E k \in Lookups(log) : log[k].by = "dir" /\ log[k].title = n /\ log[k].out.kind = "ok"

\* C10: once the loop over the files has begun, upload_ils_directory ends only
\* after the loop's last file: for every supported file new_page was called and
\* the attachment block was entered (the lookup of the file's page, and the
\* upload whenever the lookup returned an id), whatever failed for the files
\* before it.
C10_BatchContinues ==
    (DirEnded /\ Len(dir.files) > 0) =>
        /\ dir.phase = "complete"
        /\ dir.i = Len(dir.files)
        /\ dir.files = SelectSupported(dir.listing)
        /\ \A n \in Range(dir.files) :
              /\ CalledFor("new_page", n)
              /\ CalledFor("get_page_id_by_title", n)
              /\ LookedUp(n) => CalledFor("upload", n)

\* A run over two files whose first file's new_page raised and whose first
\* file's upload raised too, and whose second file was uploaded.
C10_Witness ==
    /\ DirEnded
    /\ Len(dir.files) = 2
    /\ \E a, b, c, d \in 1..Len(log) :
          /\ a < b /\ b < c /\ c < d
          /\ log[a].ev = "query" /\ log[a].title = dir.files[1] /\ QueryRaised(log[a])
          /\ log[b].ev = "att_post" /\ log[b].filename = dir.files[1] /\ ~log[b].ok
          /\ log[c] = Marker("new_page", dir.files[2])
          /\ log[d].ev = "att_post" /\ log[d].filename = dir.files[2] /\ log[d].ok

\* The text a parser reads back from the code block, and whether the CDATA
\* section ended where the template ends it.
Decoded == ParseCdata(cdata.body).text
EndsAtTemplate == ParseCdata(cdata.body).rest = BodyClose

\* One of the two functions read the file and filled its code block template.
CodeBlockBuilt == cdata.by # "none" /\ cdata.access = "ok"

HasCarriageReturn(s) == \E k \in 1..Len(s) : s[k] = "CR"

HasCdataEnd(s) == \E k \in 1..Len(s) : StartsWith(Drop(s, k - 1), CdataEnd)

\* C11 (as claimed): for every source text, the payload the code-block template
\* places in the CDATA section decodes back to exactly that text, and the
\* section does not end early.
C11_Original ==
    CodeBlockBuilt => (Decoded = cdata.file /\ EndsAtTemplate)

\* C11 (amended): the same for every source text without a carriage return
\* (reading the file in text mode turns CR LF and CR into LF before escaping).
C11_RoundTrip ==
    (CodeBlockBuilt /\ ~HasCarriageReturn(cdata.file)) =>
        (Decoded = cdata.file /\ EndsAtTemplate)

\* A source text with ]]> right after a ] was escaped and reads back unchanged.
C11_Witness ==
    /\ CodeBlockBuilt
    /\ ~HasCarriageReturn(cdata.file)
    /\ \E k \in 1..Len(cdata.file) :
          /\ cdata.file[k] = "]"
          /\ StartsWith(Drop(cdata.file, k), CdataEnd)
    /\ Decoded = cdata.file
    /\ Len(cdata.body) > Len(CodeBlock(cdata.file))

AttPosts(s) == {k \in 1..Len(s) : s[k].ev = "att_post"}

\* The page is the wrapper page of file n: titled n, directly under the
\* directory page of the run.
IsWrapperOf(page, n) ==
    /\ page \in PageIds
    /\ DirectoryPage # NoPage
    /\ pages[page].title = n
    /\ pages[page].parent = DirectoryPage

\* C12 (as claimed, for a run whose every request was answered with success):
\* every attachment upload of upload_ils_directory is sent to the wrapper page
\* of its file under the directory page, never to a page of that title under
\* another parent and never when there is no wrapper page.
C12_AttachToWrapper ==
    Clean(log) => \A k \in AttPosts(log) : IsWrapperOf(log[k].page, log[k].filename)

\* The answer to a lookup by title is one get_page_id_by_title fails on: a
\* non-200 status, a body that is not a result list, or no result.
ResolutionFails(resp) == resp.status # 200 \/ ~resp.json \/ Len(resp.results) = 0

\* new_page's resolution of its parent was answered in this step, and failed.
ParentResolutionFailed ==
    /\ pc = "np_resolve"
    /\ pc' # "np_resolve"
    /\ ResolutionFails(log'[Len(log')].resp)

\* C13: when resolving the parent title fails in new_page, the call ends there:
\* the lookup of the parent is its only request (no title query for the child,
\* no create, no update) and the platform's pages are unchanged.
C13_AbortOnParent ==
    [][ParentResolutionFailed =>
           /\ pc' \in ReturnPcs
           /\ ret'.op = "new_page"
           /\ Len(CurLog(log')) = 1
           /\ CurLog(log')[1].ev = "get_by_title"
           /\ pages' = pages
           /\ atts' = atts]_vars

\* A new_page whose parent title matched no page ended after that one lookup,
\* while a page with the child's title existed.
C13_Witness ==
    /\ NpEnded
    /\ Len(CurLog(log)) = 1
    /\ CurLog(log)[1].ev = "get_by_title"
    /\ CurLog(log)[1].resp = [status |-> 200, json |-> TRUE, results |-> <<>>]
    /\ np.parent = "Nope"
    /\ \E i \in PageIds : pages[i].title = np.title

\* The external writer edited the page of PUT k of trace s after the call's
\* title query was answered and before the PUT.
EditedBetween(s, k) ==
    \E q \in Queries(s), e \in Externals(s) : q < e /\ e < k /\ s[e].page = s[k].page

\* C14: when an external writer updated the page between new_page's title query
\* and its PUT, the PUT declares a version that is not the page's version + 1,
\* the platform rejects it, the page keeps the external writer's content and
\* version, and new_page ends with that failed PUT as its last request.
C14_StaleUpdateRejected ==
    \A k \in Puts(CurLog(log)) :
        EditedBetween(CurLog(log), k) =>
            LET s == CurLog(log)
            IN /\ s[k].payload.version # s[k].cur + 1
               /\ s[k].status # 200
               /\ ~s[k].ok
               /\ pages[s[k].page].body = ExternalBody
               /\ pages[s[k].page].version = s[k].cur
               /\ k = Len(s)
               /\ Cardinality(Writes(s)) = 1
               /\ NpEnded

\* A PUT that the platform answered 409 after the external writer had edited
\* the page new_page had read.
C14_Witness ==
    /\ NpEnded
    /\ \E k \in Puts(CurLog(log)) :
          /\ EditedBetween(CurLog(log), k)
          /\ CurLog(log)[k].status = 409
          /\ CurLog(log)[k].payload.body # ExternalBody

\* The operation whose call is in progress or was the last to end.
CurOp == IF Len(log) = 0 THEN "none" ELSE log[LastCall(log, Len(log))].op

\* No request of the trace is of the kind of an earlier one.
NoReissue(s) == \A j, k \in 1..Len(s) : s[j].ev = s[k].ev => j = k

\* A request of upload_attachment_to_page failed: a status that is not a
\* success (the 400 "same file name" that leads to the update aside), or a
\* lookup that did not list the attachment.
AnswerFailed(e) ==
    IF e.ev = "att_post" THEN e.resp.status \notin {200, 201} /\ ~Collision(e)
    ELSE ~e.ok

\* The requests of the current call are within the claimed bounds: new_page at
\* most three, at most one of them a write, and the write is its last;
\* upload_attachment_to_page at most three, and none after a failed one; no
\* kind of request occurs twice.
RequestBound ==
    LET s == CurLog(log)
    IN /\ CurOp = "new_page" =>
             /\ Len(s) <= 3
             /\ Cardinality(Writes(s)) <= 1
             /\ \A k \in Writes(s) : k = Len(s) /\ NpEnded
             /\ NoReissue(s)
       /\ CurOp = "upload" =>
             /\ Len(s) <= 3
             /\ \A k \in 1..Len(s) : AnswerFailed(s[k]) => (k = Len(s) /\ UaEnded)
             /\ NoReissue(s)

CallRunning == pc # "idle"

\* C15: whatever the platform answers, one new_page issues at most 3 requests
\* with at most one write, one upload_attachment_to_page issues at most 3
\* requests, no request is issued again after a failure, and every call ends.
C15_BoundedRequests == []RequestBound /\ (CallRunning ~> ~CallRunning)

\* An upload that went through create, lookup and update, whose update failed,
\* and that ended there.
C15_Witness ==
    /\ UaEnded
    /\ Len(CurLog(log)) = 3
    /\ CurLog(log)[3].ev = "att_data"
    /\ ~CurLog(log)[3].ok
    /\ ret.kind = "raise"

\* The call a log entry belongs to: the last call marker before it.
Owner(k) == log[LastCall(log, k)]

AttWrites(s) == {k \in 1..Len(s) : s[k].ev \in {"att_post", "att_data"}}

\* A call marker for (op, t) precedes position k of the log.
CalledBefore(op, t, k) == \E j \in 1..(k - 1) : log[j] = Marker(op, t)

\* C16: in upload_ils_directory the section page's upsert comes first, the
\* directory page's after it, every file's wrapper page after the directory
\* page's, and a file's attachment upload after its wrapper page's upsert; a
\* write belongs to the call made last, so by the time a child's call is made
\* no write of its parent's upsert is outstanding.
C16_WriteOrder ==
    /\ Len(log) >= 2 => log[2] = Marker("new_page", dir.section)
    /\ \A k \in Writes(log) : Owner(k) = Marker("new_page", log[k].payload.title)
    /\ \A k \in AttWrites(log) : Owner(k).op = "upload"
    /\ \A k \in AttPosts(log) : Owner(k) = Marker("upload", log[k].filename)
    /\ \A k \in 1..Len(log) :
          /\ log[k] = Marker("new_page", dir.title) =>
                CalledBefore("new_page", dir.section, k)
          /\ \A f \in Range(dir.listing) :
                /\ log[k] = Marker("new_page", f) =>
                      /\ CalledBefore("new_page", dir.title, k)
                      /\ ~CalledBefore("upload", f, k)
                /\ log[k] = Marker("upload", f) => CalledBefore("new_page", f, k)

\* A run over two files that wrote the section page, the directory page, and
\* for each file its page and then its attachment.
C16_Witness ==
    /\ DirEnded
    /\ Len(dir.files) = 2
    /\ Clean(log)
    /\ Cardinality(Posts(log)) = 4
    /\ Cardinality(AttPosts(log)) = 2

\* The title query's answer allows a create: status 200 and no result whose
\* last ancestor is the resolved parent.
AllowsCreate(e) ==
    /\ e.resp.status = 200
    /\ e.resp.json
    /\ FirstUnder(e.resp.results, e.par, 1) = 0

\* C17 (as claimed): new_page issues a POST only after its title query was
\* answered 200 with no result under the resolved parent, and no write at all
\* after a title query answered with another status.
C17_CreateOnlyAfterQuery ==
    LET s == CurLog(log)
    IN /\ \A k \in Posts(s) : \E q \in Queries(s) : q < k /\ AllowsCreate(s[q])
       /\ \A q \in Queries(s) : s[q].resp.status # 200 => Writes(s) = {}

====
